---------------------------- MODULE Spec2Model ----------------------------
(***************************************************************************)
(* A model of tensorflow_cnn/load_cifar10.py: the CIFAR-10 loader that     *)
(* reads pickled batch files, converts the raw pixel buffers to image      *)
(* tensors, merges the training batches into pre-allocated arrays and      *)
(* one-hot encodes the class numbers.                                      *)
(*                                                                         *)
(* Conventions.                                                            *)
(*  - A one-dimensional numpy array is a sequence; Python index p is the    *)
(*    sequence index p + 1.  Offsets (begin, end, i) keep Python's values.  *)
(*  - A row of np.eye and an image are functions over 0-based indices.     *)
(*  - A float is an exact rational [num, den] in lowest terms, so that     *)
(*    0/255.0 = 0.0 and 255/255.0 = 1.0 compare equal as they do in numpy.  *)
(*  - A call that raises yields [err |-> <Python exception>, val |-> <<>>]; *)
(*    a call that returns yields [err |-> "none", val |-> <value>].        *)
(*  - An optional integer argument is <<>> for None and <<n>> for n.       *)
(***************************************************************************)
EXTENDS Integers, Sequences, FiniteSets, TLC

VARIABLES
    op,           \* the public function the caller invoked
    show,         \* load_data's show_example_images argument
    pc,           \* position of the call
    i,            \* load_training_data: loop index
    begin,        \* load_training_data: begin-index for the current batch
    images,       \* load_training_data: the pre-allocated image array
    cls,          \* load_training_data: the pre-allocated class-number array
    train,        \* load_data: what load_training_data returned
    test,         \* load_data: what load_test_data returned
    class_names,  \* load_data: what load_class_names returned
    result,       \* what the call returned to its caller
    error,        \* the exception that left the call ("none": none)
    unclosed,     \* files _unpickle opened and whose fo.close() never ran
    reads,        \* history: the file names passed to _unpickle, in order
    batches,      \* history: the class numbers of each training batch stored
    plotted,      \* history: how the call of plot_functions.plot_images ended
    arg,          \* pure-function checks: the arguments of the call
    ret           \* pure-function checks: what the call produced

vars == <<op, show, pc, i, begin, images, cls, train, test, class_names,
          result, error, unclosed, reads, batches, plotted, arg, ret>>

loaderVars == <<op, show, pc, i, begin, images, cls, train, test, class_names,
                result, error, unclosed, reads, batches, plotted>>

-----------------------------------------------------------------------------
(* Program constants.  img_size, _num_files_train and _images_per_file are  *)
(* scaled down from the source's 32, 5 and 10000 so that the arrays can be  *)
(* enumerated; num_channels and num_classes keep their values.             *)

img_size == 1

num_channels == 3

num_classes == 10

_num_files_train == 3

_images_per_file == 1

_num_images_train == _num_files_train * _images_per_file

(* Bounds of the enumerated inputs. *)

\* most images a batch file holds (one more than fits a file's share)
MaxShardImages == 2

\* one_hot_encoded: longest class_numbers, largest num_classes, ids down to -MaxNeg
MaxIds == 3

MaxClasses == 4

MaxNeg == 2

\* _convert_images: most images, channels and height/width of a raw buffer
MaxCount == 2

MaxChannels == 2

MaxSize == 2

-----------------------------------------------------------------------------
(* Values *)

None == <<>>

Some(n) == <<n>>

Returned(v) == [err |-> "none", val |-> v]

Raised(e) == [err |-> e, val |-> <<>>]

RECURSIVE Gcd(_, _)
Gcd(a, b) == IF b = 0 THEN a ELSE Gcd(b, a % b)

\* a / b in Python float arithmetic, kept exact (b > 0, a >= 0)
TrueDiv(a, b) == LET g == Gcd(a, b) IN [num |-> a \div g, den |-> b \div g]

\* the float 0.0 that np.zeros fills an array with
Zero == [num |-> 0, den |-> 1]

RECURSIVE SeqSum(_)
SeqSum(s) == IF s = <<>> THEN 0 ELSE Head(s) + SeqSum(Tail(s))

RECURSIVE Product(_)
Product(s) == IF s = <<>> THEN 1 ELSE Head(s) * Product(Tail(s))

\* all sequences over S of length n
RECURSIVE SeqsOfLen(_, _)
SeqsOfLen(S, n) ==
    IF n = 0 THEN {<<>>}
    ELSE {Append(t, x) : t \in SeqsOfLen(S, n - 1), x \in S}

-----------------------------------------------------------------------------
(* numpy *)

\* np.max(a): the largest element; raises ValueError on an empty array
np_max(a) ==
    IF Len(a) = 0 THEN Raised("ValueError")
    ELSE Returned(CHOOSE m \in {a[k] : k \in 1..Len(a)} :
                      \A k \in 1..Len(a) : a[k] <= m)

\* np.eye(N, dtype=float): the N x N identity; a negative N raises ValueError
np_eye(N) ==
    IF N < 0 THEN Raised("ValueError")
    ELSE Returned([r \in 0..(N - 1) |->
                      [c \in 0..(N - 1) |-> IF r = c THEN 1 ELSE 0]])

\* a[idx] for a 2-dim array a of `rows` rows and an integer array idx: row
\* idx[k] of a for each k, a negative index counting from the end; an index
\* outside -rows .. rows-1 raises IndexError
np_take(a, rows, idx) ==
    IF \E k \in 1..Len(idx) : idx[k] < -rows \/ idx[k] >= rows
    THEN Raised("IndexError")
    ELSE Returned([k \in 1..Len(idx) |->
                      a[IF idx[k] < 0 THEN idx[k] + rows ELSE idx[k]]])

\* a variant that derives the conventional max(class_numbers) + 1
derived_num_classes_plus_one(class_numbers, num_classes_arg) ==
    IF num_classes_arg = None
    THEN LET m == np_max(class_numbers)
         IN IF m.err # "none" THEN m ELSE Returned(m.val + 1)
    ELSE Returned(num_classes_arg[1])

\* the number of classes one_hot_encoded uses: max(class_numbers) - 1 if None
derived_num_classes(class_numbers, num_classes_arg) ==
    IF num_classes_arg = None
    THEN LET m == np_max(class_numbers)
         IN IF m.err # "none" THEN m ELSE Returned(m.val - 1)
    ELSE Returned(num_classes_arg[1])

one_hot_encoded(class_numbers, num_classes_arg) ==
    LET n == derived_num_classes(class_numbers, num_classes_arg)
    IN IF n.err # "none" THEN n
       ELSE LET e == np_eye(n.val)
            IN IF e.err # "none" THEN e
               ELSE np_take(e.val, n.val, class_numbers)

\* the 0-based index tuples of an array of the given shape
RECURSIVE IndexSet(_)
IndexSet(shape) ==
    IF shape = <<>> THEN {<<>>}
    ELSE {<<k>> \o t : k \in 0..(Head(shape) - 1), t \in IndexSet(Tail(shape))}

\* the position of index tuple idx in the C-order (row-major) flattening
RECURSIVE RavelIndex(_, _, _)
RavelIndex(idx, shape, acc) ==
    IF idx = <<>> THEN acc
    ELSE RavelIndex(Tail(idx), Tail(shape), acc * Head(shape) + Head(idx))

\* flat.reshape([-1] + dims): the first axis is inferred from the length;
\* a length that dims does not divide raises ValueError
np_reshape(flat, dims) ==
    LET block == Product(dims)
    IN IF block = 0 \/ Len(flat) % block # 0 THEN Raised("ValueError")
       ELSE LET shape == <<Len(flat) \div block>> \o dims
            IN Returned([shape |-> shape,
                         at |-> [idx \in IndexSet(shape) |->
                                    flat[RavelIndex(idx, shape, 0) + 1]]])

\* a.transpose(axes): axis k of the result is axis axes[k] of a (0-based)
np_transpose(a, axes) ==
    LET shape == [k \in 1..Len(axes) |-> a.shape[axes[k] + 1]]
        src(idx) == [d \in 1..Len(axes) |->
                        idx[CHOOSE k \in 1..Len(axes) : axes[k] + 1 = d]]
    IN [shape |-> shape, at |-> [idx \in IndexSet(shape) |-> a.at[src(idx)]]]

\* len(a) and a[n] of an n-dim array: the sub-arrays along the first axis
np_rows(a) ==
    [n \in 1..a.shape[1] |->
        [idx \in IndexSet(Tail(a.shape)) |-> a.at[<<n - 1>> \o idx]]]

\* np.zeros(shape, dtype=float), as the sequence of its sub-arrays
np_zeros(shape) ==
    [n \in 1..Head(shape) |-> [idx \in IndexSet(Tail(shape)) |-> Zero]]

\* a variant that reshapes straight to [-1, size, size, channels], no transpose
convert_images_no_transpose(raw, channels, size) ==
    LET raw_float == [p \in 1..Len(raw) |-> TrueDiv(raw[p], 255)]
    IN np_reshape(raw_float, <<size, size, channels>>)

\* _convert_images with the globals num_channels and img_size as parameters;
\* the result is the 4-dim array [image_number, height, width, channel]
convert_images_with(raw, channels, size) ==
    LET raw_float == [p \in 1..Len(raw) |-> TrueDiv(raw[p], 255)]
        reshaped == np_reshape(raw_float, <<channels, size, size>>)
    IN IF reshaped.err # "none" THEN reshaped
       ELSE Returned(np_transpose(reshaped.val, <<0, 2, 3, 1>>))

_convert_images(raw) == convert_images_with(raw, num_channels, img_size)

-----------------------------------------------------------------------------
(* The pure functions, each called once on enumerated arguments *)

Pending == [err |-> "pending", val |-> <<>>]

\* no public call of the loader is in progress
LoaderIdle ==
    /\ op = "none" /\ show = FALSE /\ pc = "idle"
    /\ i = 0 /\ begin = 0 /\ images = <<>> /\ cls = <<>>
    /\ train = None /\ test = None /\ class_names = None
    /\ result = None /\ error = "none"
    /\ unclosed = {} /\ reads = <<>> /\ batches = <<>> /\ plotted = "no"

IdSet == (-MaxNeg)..MaxClasses

ClassNumberArrays == UNION {SeqsOfLen(IdSet, n) : n \in 0..MaxIds}

NumClassesArgs == {None} \cup {Some(n) : n \in 0..MaxClasses}

InitEnc ==
    /\ LoaderIdle
    /\ arg \in {[class_numbers |-> a, num_classes |-> n] :
                   a \in ClassNumberArrays, n \in NumClassesArgs}
    /\ ret = Pending

CallOneHotEncoded ==
    /\ ret = Pending
    /\ ret' = one_hot_encoded(arg.class_numbers, arg.num_classes)
    /\ UNCHANGED <<loaderVars, arg>>

NextEnc == CallOneHotEncoded

SpecEnc == InitEnc /\ [][NextEnc]_vars

\* raw buffers: the bytes (seed + step * p) % 256, and the 2 x 2 x 1 example
ByteSeeds == {0, 1, 127, 128, 254, 255}

ByteSteps == {0, 1, 51, 255}

RawBuffers(len) ==
    {[p \in 1..len |-> (seed + step * (p - 1)) % 256] :
        seed \in ByteSeeds, step \in ByteSteps}
    \cup (IF len = 4 THEN {<<0, 128, 255, 64>>} ELSE {})

InitConv ==
    /\ LoaderIdle
    /\ \E count \in 0..MaxCount, channels \in 1..MaxChannels, size \in 1..MaxSize :
          arg \in {[raw |-> r, channels |-> channels, size |-> size] :
                      r \in RawBuffers(count * channels * size * size)}
    /\ ret = Pending

CallConvertImages ==
    /\ ret = Pending
    /\ ret' = convert_images_with(arg.raw, arg.channels, arg.size)
    /\ UNCHANGED <<loaderVars, arg>>

NextConv == CallConvertImages

SpecConv == InitConv /\ [][NextConv]_vars

-----------------------------------------------------------------------------
(* The data files *)

\* "data_batch_" + str(i + 1)
BatchFileName(k) == "data_batch_" \o ToString(k + 1)

\* class numbers a batch file may hold: a negative one, a valid one, one too large
LabelSet == {-1, 2, num_classes}

\* Length of an image when flattened to a 1-dim array
img_size_flat == img_size * img_size * num_channels

\* the pixel bytes of a file: non-zero, distinct within and across files
FileSeed(filename) ==
    CASE filename = "test_batch" -> 200
      [] OTHER -> 50 * (CHOOSE k \in 0..(_num_files_train - 1) :
                            BatchFileName(k) = filename) + 50

RawPixels(filename, count) ==
    [p \in 1..(count * img_size_flat) |-> FileSeed(filename) + p]

LabelNames == <<"airplane", "automobile", "bird", "cat", "deer",
                "dog", "frog", "horse", "ship", "truck">>

\* the dictionaries a readable file may unpickle to: a batch of `count`
\* images with one class number each, or the meta-data
FileContents(filename) ==
    IF filename = "batches.meta" THEN {[label_names |-> LabelNames]}
    ELSE {[data |-> RawPixels(filename, Len(l)), labels |-> l] :
             l \in UNION {SeqsOfLen(LabelSet, c) : c \in 0..MaxShardImages}}

\* _unpickle(filename), every way it can end: open raises; cPickle.load
\* raises, and fo.close() is skipped (unclosed); or the dictionary is returned
\* after fo.close()
_unpickle(filename) ==
    {[err |-> "IOError", val |-> <<>>, unclosed |-> FALSE],
     [err |-> "UnpicklingError", val |-> <<>>, unclosed |-> TRUE]}
    \cup {[err |-> "none", val |-> d, unclosed |-> FALSE] :
             d \in FileContents(filename)}

\* _load_data(filename): the converted images and the class numbers
_load_data(filename) ==
    {IF data.err # "none" THEN data
     ELSE LET converted == _convert_images(data.val.data)
          IN IF converted.err # "none"
             THEN [err |-> converted.err, val |-> <<>>, unclosed |-> FALSE]
             ELSE [data EXCEPT !.val = [images |-> np_rows(converted.val),
                                        cls |-> data.val.labels,
                                        raw |-> data.val]] :
     data \in _unpickle(filename)}

\* a[lo:hi] = src on the first axis (0 <= lo <= hi): the slice is clipped to
\* the array; src must have the slice's length or length 1 (broadcast), or
\* numpy raises ValueError
slice_assign(a, lo, hi, src) ==
    LET start == IF lo < Len(a) THEN lo ELSE Len(a)
        stop == IF hi < Len(a) THEN hi ELSE Len(a)
        inSlice(p) == start < p /\ p <= stop
    IN IF Len(src) = stop - start
       THEN Returned([p \in 1..Len(a) |->
                         IF inSlice(p) THEN src[p - start] ELSE a[p]])
       ELSE IF Len(src) = 1
       THEN Returned([p \in 1..Len(a) |-> IF inSlice(p) THEN src[1] ELSE a[p]])
       ELSE Raised("ValueError")

\* end = begin + num_images, a variant that advances by the fixed file size
end_index_fixed(b, num_images) == b + _images_per_file

\* end = begin + num_images
end_index(b, num_images) == b + num_images

-----------------------------------------------------------------------------
(* The public functions *)

Ops == {"load_training_data", "load_test_data", "load_class_names", "load_data"}

Init ==
    /\ op \in Ops
    /\ show \in (IF op = "load_data" THEN BOOLEAN ELSE {FALSE})
    /\ pc = (IF op = "load_data" THEN "load_training_data" ELSE op)
    /\ i = 0 /\ begin = 0 /\ images = <<>> /\ cls = <<>>
    /\ train = None /\ test = None /\ class_names = None
    /\ result = None /\ error = "none"
    /\ unclosed = {} /\ reads = <<>> /\ batches = <<>> /\ plotted = "no"
    /\ arg = None /\ ret = Pending

\* an exception retried in place instead of leaving the call
RaiseAndRetry(e) ==
    /\ pc' = pc
    /\ error' = e
    /\ result' = None

\* no function of the module catches anything: an exception raised anywhere
\* unwinds to the caller of the public function, which gets no value
Raise(e) ==
    /\ pc' = "failed"
    /\ error' = e
    /\ result' = None

\* a public function returns v: to the caller, or to load_data at pc `next`
Return(v, next) ==
    IF op = "load_data"
    THEN pc' = next /\ result' = result /\ error' = error
    ELSE pc' = "done" /\ result' = v /\ error' = error

\* the bookkeeping of one call of _unpickle that ended as `data`
Unpickled(filename, data) ==
    /\ reads' = Append(reads, [file |-> filename, err |-> data.err])
    /\ unclosed' = IF data.unclosed THEN unclosed \cup {filename} ELSE unclosed

\* load_training_data, lines 129-133: pre-allocate the arrays
TrainAllocate ==
    /\ pc = "load_training_data"
    /\ images' = np_zeros(<<_num_images_train, img_size, img_size, num_channels>>)
    /\ cls' = [p \in 1.._num_images_train |-> 0]
    /\ begin' = 0
    /\ i' = 0
    /\ pc' = "train_loop"
    /\ UNCHANGED <<op, show, train, test, class_names, result, error,
                   unclosed, reads, batches, plotted, arg, ret>>

\* one iteration of the loop whose _load_data raises
TrainBatchUnavailable ==
    /\ pc = "train_loop" /\ i < _num_files_train
    /\ \E data \in _load_data(BatchFileName(i)) :
          /\ data.err # "none"
          /\ Unpickled(BatchFileName(i), data)
          /\ Raise(data.err)
    /\ UNCHANGED <<op, show, i, begin, images, cls, train, test, class_names,
                   batches, plotted, arg, ret>>

\* one iteration of the loop whose slice assignment raises
TrainBatchMismatch ==
    /\ pc = "train_loop" /\ i < _num_files_train
    /\ \E data \in _load_data(BatchFileName(i)) :
          /\ data.err = "none"
          /\ LET images_batch == data.val.images
                 cls_batch == data.val.cls
                 num_images == Len(images_batch)
                 end == end_index(begin, num_images)
                 stored_images == slice_assign(images, begin, end, images_batch)
                 stored_cls == slice_assign(cls, begin, end, cls_batch)
             IN /\ stored_images.err # "none" \/ stored_cls.err # "none"
                /\ Raise(IF stored_images.err # "none"
                         THEN stored_images.err ELSE stored_cls.err)
                /\ images' = IF stored_images.err # "none"
                             THEN images ELSE stored_images.val
          /\ Unpickled(BatchFileName(i), data)
          /\ batches' = Append(batches, data.val.raw)
    /\ UNCHANGED <<op, show, i, begin, cls, train, test, class_names,
                   plotted, arg, ret>>

\* one iteration of the loop that stores the batch at begin:end
TrainBatchStore ==
    /\ pc = "train_loop" /\ i < _num_files_train
    /\ \E data \in _load_data(BatchFileName(i)) :
          /\ data.err = "none"
          /\ LET images_batch == data.val.images
                 cls_batch == data.val.cls
                 num_images == Len(images_batch)
                 end == end_index(begin, num_images)
                 stored_images == slice_assign(images, begin, end, images_batch)
                 stored_cls == slice_assign(cls, begin, end, cls_batch)
             IN /\ stored_images.err = "none" /\ stored_cls.err = "none"
                /\ images' = stored_images.val
                /\ cls' = stored_cls.val
                /\ begin' = end
          /\ Unpickled(BatchFileName(i), data)
          /\ batches' = Append(batches, data.val.raw)
    /\ i' = i + 1
    /\ UNCHANGED <<op, show, pc, train, test, class_names, result, error,
                   plotted, arg, ret>>

\* line 150, the encoding raises
TrainEncodeFails ==
    /\ pc = "train_loop" /\ i = _num_files_train
    /\ LET labels == one_hot_encoded(cls, Some(num_classes))
       IN /\ labels.err # "none"
          /\ Raise(labels.err)
    /\ UNCHANGED <<op, show, i, begin, images, cls, train, test, class_names,
                   unclosed, reads, batches, plotted, arg, ret>>

\* line 150: return images, cls, one_hot_encoded(cls, num_classes)
TrainReturn ==
    /\ pc = "train_loop" /\ i = _num_files_train
    /\ LET labels == one_hot_encoded(cls, Some(num_classes))
       IN /\ labels.err = "none"
          /\ LET split == [images |-> images, cls |-> cls, labels |-> labels.val]
             IN /\ Return(split, "load_test_data")
                /\ train' = split
    /\ UNCHANGED <<op, show, i, begin, images, cls, test, class_names,
                   unclosed, reads, batches, plotted, arg, ret>>

\* load_test_data whose _load_data or encoding raises
TestFails ==
    /\ pc = "load_test_data"
    /\ \E data \in _load_data("test_batch") :
          /\ Unpickled("test_batch", data)
          /\ IF data.err # "none" THEN Raise(data.err)
             ELSE LET labels == one_hot_encoded(data.val.cls, Some(num_classes))
                  IN labels.err # "none" /\ Raise(labels.err)
    /\ UNCHANGED <<op, show, i, begin, images, cls, train, test, class_names,
                   batches, plotted, arg, ret>>

\* load_test_data, lines 158-159
TestReturn ==
    /\ pc = "load_test_data"
    /\ \E data \in _load_data("test_batch") :
          /\ data.err = "none"
          /\ Unpickled("test_batch", data)
          /\ LET labels == one_hot_encoded(data.val.cls, Some(num_classes))
             IN /\ labels.err = "none"
                /\ LET split == [images |-> data.val.images, cls |-> data.val.cls,
                                 labels |-> labels.val]
                   IN /\ Return(split, "load_class_names")
                      /\ test' = split
    /\ UNCHANGED <<op, show, i, begin, images, cls, train, class_names,
                   batches, plotted, arg, ret>>

\* load_class_names whose _unpickle raises
ClassNamesFails ==
    /\ pc = "load_class_names"
    /\ \E data \in _unpickle("batches.meta") :
          /\ data.err # "none"
          /\ Unpickled("batches.meta", data)
          /\ Raise(data.err)
    /\ UNCHANGED <<op, show, i, begin, images, cls, train, test, class_names,
                   batches, plotted, arg, ret>>

\* load_class_names, line 119
ClassNamesReturn ==
    /\ pc = "load_class_names"
    /\ \E data \in _unpickle("batches.meta") :
          /\ data.err = "none"
          /\ Unpickled("batches.meta", data)
          /\ Return(data.val.label_names, IF show THEN "preview" ELSE "return")
          /\ class_names' = data.val.label_names
    /\ UNCHANGED <<op, show, i, begin, images, cls, train, test,
                   batches, plotted, arg, ret>>

\* load_data, lines 174-177: plot_images returns
PreviewReturns ==
    /\ pc = "preview"
    /\ plotted' = "returned"
    /\ pc' = "return"
    /\ UNCHANGED <<op, show, i, begin, images, cls, train, test, class_names,
                   result, error, unclosed, reads, batches, arg, ret>>

\* load_data, lines 174-177: plot_images raises
PreviewRaises ==
    /\ pc = "preview"
    /\ plotted' = "raised"
    /\ Raise("PlotError")
    /\ UNCHANGED <<op, show, i, begin, images, cls, train, test, class_names,
                   unclosed, reads, batches, arg, ret>>

\* what load_data returns: the class names and the two splits
Dataset == [class_names |-> class_names,
            data |-> [train |-> train, test |-> test]]

\* load_data, lines 179-180
LoadDataReturn ==
    /\ pc = "return"
    /\ result' = Dataset
    /\ pc' = "done"
    /\ UNCHANGED <<op, show, i, begin, images, cls, train, test, class_names,
                   error, unclosed, reads, batches, plotted, arg, ret>>

Next ==
    \/ TrainAllocate
    \/ TrainBatchUnavailable
    \/ TrainBatchMismatch
    \/ TrainBatchStore
    \/ TrainEncodeFails
    \/ TrainReturn
    \/ TestFails
    \/ TestReturn
    \/ ClassNamesFails
    \/ ClassNamesReturn
    \/ PreviewReturns
    \/ PreviewRaises
    \/ LoadDataReturn

Spec == Init /\ [][Next]_vars

-----------------------------------------------------------------------------
(* Claims about the loader *)

\* the num_classes-length standard basis vector indexed by id
BasisVector(n, id) == [c \in 0..(n - 1) |-> IF c = id THEN 1 ELSE 0]

\* number of images of a batch file's dictionary
Count(d) == Len(d.labels)

\* the images _load_data reconstructs from a batch file's dictionary
Reconstructed(d) == np_rows(_convert_images(d.data).val)

Counts == [k \in 1..Len(batches) |-> Count(batches[k])]

\* c_1 + ... + c_(k-1)
Offset(k) == SeqSum(SubSeq(Counts, 1, k - 1))

\* the Splits load_training_data and load_test_data have returned
ReturnedSplits ==
    (IF train = None THEN {} ELSE {train}) \cup (IF test = None THEN {} ELSE {test})

\* C1: batches whose image counts fit the pre-allocated capacity are merged
\* by concatenation: no store raises, the offset is the sum of the batches'
\* own counts, image j and class number j of batch k are at merged index
\* Offset(k) + j, and that is what load_training_data returns.
C1_Concatenation ==
    (pc # "load_training_data" /\ SeqSum(Counts) <= _num_images_train) =>
        /\ error # "ValueError"
        /\ begin = SeqSum(Counts)
        /\ \A k \in 1..Len(batches) : \A j \in 1..Count(batches[k]) :
              /\ images[Offset(k) + j] = Reconstructed(batches[k])[j]
              /\ cls[Offset(k) + j] = batches[k].labels[j]
        /\ train # None => (train.images = images /\ train.cls = cls)
        /\ (op = "load_training_data" /\ pc = "done") => result = train

\* batches of 2, 1 and 0 images were merged and returned
C1_Witness ==
    /\ op = "load_training_data" /\ pc = "done"
    /\ Counts = <<2, 1, 0>>
    /\ result.cls = <<2, 2, 2>>
    /\ result.images[3] = Reconstructed(batches[2])[1]

\* C2: every returned Split has as many images as class numbers and one-hot
\* rows, and row i is the basis vector of cls[i].
C2_SplitConsistent ==
    \A s \in ReturnedSplits :
        /\ Len(s.images) = Len(s.cls)
        /\ Len(s.cls) = Len(s.labels)
        /\ \A r \in 1..Len(s.cls) : s.labels[r] = BasisVector(num_classes, s.cls[r])

\* C3: the Split load_training_data returns has exactly as many entries as
\* the batches read held images.
C3_LengthIsTotalCount ==
    train # None =>
        /\ Len(train.images) = SeqSum(Counts)
        /\ Len(train.cls) = SeqSum(Counts)
        /\ Len(train.labels) = SeqSum(Counts)

\* C4: once the batches read hold more images than the pre-allocated
\* capacity, the call has failed with ValueError (ShardSizeMismatch) and
\* returned no Split.
C4_OverflowRaises ==
    SeqSum(Counts) > _num_images_train =>
        /\ pc = "failed"
        /\ error = "ValueError"
        /\ train = None /\ result = None

\* C7: a failed read is the last read of the call: the call has ended with
\* that read's exception and has returned nothing.
C7_AllOrNothing ==
    \A k \in 1..Len(reads) :
        reads[k].err # "none" =>
            /\ k = Len(reads)
            /\ pc = "failed"
            /\ error = reads[k].err
            /\ result = None

\* load_data read all batches and the test file, then failed on batches.meta
C7_Witness ==
    /\ op = "load_data" /\ pc = "failed"
    /\ Len(reads) = _num_files_train + 2
    /\ reads[Len(reads)] = [file |-> "batches.meta", err |-> "IOError"]
    /\ train # None /\ test # None
    /\ result = None

\* C8: no file that _unpickle opened is left without fo.close().
C8_FilesClosed == unclosed = {}

\* C9: when plot_images raises, load_data still returns the class names and
\* the Dataset.
C9_PreviewFailureIgnored ==
    (plotted = "raised" /\ pc \in {"done", "failed"}) =>
        /\ pc = "done"
        /\ result = Dataset

-----------------------------------------------------------------------------
(* Claims about the pure functions *)

EncDone == ret # Pending /\ "class_numbers" \in DOMAIN arg

\* C5: one_hot_encoded with an explicit num_classes raises IndexError
\* (InvalidClassId) whenever some class id is >= num_classes or negative, and
\* otherwise returns the matrix whose row i is the basis vector of
\* class_numbers[i].
C5_InvalidIdRaises ==
    (EncDone /\ arg.num_classes # None) =>
        LET ids == arg.class_numbers
            n == arg.num_classes[1]
        IN IF \E k \in 1..Len(ids) : ids[k] >= n \/ ids[k] < 0
           THEN ret.err = "IndexError"
           ELSE ret = Returned([k \in 1..Len(ids) |-> BasisVector(n, ids[k])])

\* C10: with num_classes omitted, every non-empty array of non-negative ids
\* makes one_hot_encoded raise and return no matrix: the derived num_classes
\* is max - 1; the indexing raises IndexError when that is >= 0 and np.eye
\* raises ValueError when it is -1.  For [0, 1, 2] the derived value is 1.
C10_DerivedNumClassesRaises ==
    (EncDone /\ arg.num_classes = None) =>
        LET ids == arg.class_numbers
        IN (Len(ids) > 0 /\ \A k \in 1..Len(ids) : ids[k] >= 0) =>
              /\ ret.err # "none"
              /\ ret.val = <<>>
              /\ ret.err = IF \E k \in 1..Len(ids) : ids[k] >= 1
                           THEN "IndexError" ELSE "ValueError"
              /\ ids = <<0, 1, 2>> =>
                    /\ derived_num_classes(ids, None) = Returned(1)
                    /\ ret.err = "IndexError"

C10_Witness ==
    /\ EncDone
    /\ arg = [class_numbers |-> <<0, 1, 2>>, num_classes |-> None]
    /\ ret = Raised("IndexError")

ConvDone == ret # Pending /\ "raw" \in DOMAIN arg

\* the element-wise law of C6
C6_ElementLaw ==
    ConvDone =>
        LET C == arg.channels
            H == arg.size
            W == arg.size
            count == Len(arg.raw) \div (C * H * W)
        IN /\ ret.err = "none"
           /\ ret.val.shape = <<count, H, W, C>>
           /\ DOMAIN ret.val.at =
                 {<<n, h, w, c>> : n \in 0..(count - 1), h \in 0..(H - 1),
                                   w \in 0..(W - 1), c \in 0..(C - 1)}
           /\ \A n \in 0..(count - 1), h \in 0..(H - 1),
                 w \in 0..(W - 1), c \in 0..(C - 1) :
                 LET x == ret.val.at[<<n, h, w, c>>]
                     byte == arg.raw[n * C * H * W + c * H * W + h * W + w + 1]
                 IN /\ x.den > 0
                    /\ x.num * 255 = byte * x.den
                    /\ 0 <= x.num /\ x.num <= x.den

\* the 2 x 2 x 1 example: bytes [0,128,255,64] give [[0,128/255],[1,64/255]]
C6_Example ==
    (ConvDone /\ arg = [raw |-> <<0, 128, 255, 64>>, channels |-> 1, size |-> 2]) =>
        /\ ret.val.shape = <<1, 2, 2, 1>>
        /\ ret.val.at[<<0, 0, 0, 0>>] = [num |-> 0, den |-> 1]
        /\ ret.val.at[<<0, 0, 1, 0>>] = [num |-> 128, den |-> 255]
        /\ ret.val.at[<<0, 1, 0, 0>>] = [num |-> 1, den |-> 1]
        /\ ret.val.at[<<0, 1, 1, 0>>] = [num |-> 64, den |-> 255]

\* C6: _convert_images returns the array of shape [count, height, width,
\* channels] whose element [n][h][w][c] is the raw byte at flat index
\* n*channels*height*width + c*height*width + h*width + w divided by 255,
\* a value in [0.0, 1.0]; the 2 x 2 x 1 example comes out as stated.
C6_ChannelMajorToChannelLast == C6_ElementLaw /\ C6_Example

\* a two-channel buffer with distinct bytes has been converted
C6_Witness ==
    /\ ConvDone
    /\ arg = [raw |-> <<0, 1, 2, 3, 4, 5, 6, 7>>, channels |-> 2, size |-> 2]
    /\ ret.err = "none"
    /\ ret.val.at[<<0, 1, 0, 1>>] = TrueDiv(6, 255)

=============================================================================
